---------------------------- MODULE Spec2Model ----------------------------
(***************************************************************************)
(* A model of BanMan (src/src/banman.cpp): the table of banned addresses   *)
(* and subnets, the bounded buffer of misbehaving addresses, the dirty     *)
(* flag and the dump of the ban list to banlist.dat.                       *)
(***************************************************************************)
EXTENDS Integers, Sequences, FiniteSets, TLC

(***************************************************************************)
(* Bounds of the model.                                                    *)
(***************************************************************************)
\* GetTime() runs over 0..MaxTime
MaxTime == 3
\* SetMisbehavingLimit(limit) is called with limit in 0..MaxLimit
MaxLimit == 2
\* ban_time_offset runs over 0..MaxOffset (0 selects m_default_ban_time)
MaxOffset == 2

(***************************************************************************)
(* Addresses and subnets.  A CNetAddr is a number; a CSubNet is the set of *)
(* the addresses it contains, so CSubNet(addr) is the one-element set.     *)
(***************************************************************************)
NetAddrs == {1, 2, 3}

\* CSubNet sub_net(net_addr), banman.cpp:156
CSubNet(net_addr) == {net_addr}

\* the subnets of more than one address that the callers use
WideSubNets == {{1, 2}, {1, 2, 3}}

SubNets == {CSubNet(a) : a \in NetAddrs} \cup WideSubNets

\* sub_net.IsSingleAddr(&addr): whether the subnet holds exactly one address
IsSingleAddr(sub_net) == Cardinality(sub_net) = 1

\* the address IsSingleAddr hands back through &addr
SingleAddr(sub_net) == CHOOSE a \in sub_net : TRUE

\* sub_net.Match(net_addr)
Match(sub_net, net_addr) == net_addr \in sub_net

(***************************************************************************)
(* Ban entries.                                                            *)
(***************************************************************************)
BanReasonUnknown == "Unknown"
BanReasonNodeMisbehaving == "NodeMisbehaving"
BanReasonManuallyAdded == "ManuallyAdded"
BanReasons == {BanReasonUnknown, BanReasonNodeMisbehaving, BanReasonManuallyAdded}

\* A CBanEntry: nBanUntil and banReason.  nVersion and nCreateTime, which
\* BanMan writes and never reads, are left out.
CBanEntry(ban_until, ban_reason) == [nBanUntil |-> ban_until, banReason |-> ban_reason]

\* the value-initialised entry that std::map::operator[] inserts
NullBanEntry == CBanEntry(0, BanReasonUnknown)

\* the ban time the constructor is given
m_default_ban_time == 2

(***************************************************************************)
(* Maps (std::map) as functions with a finite domain.                      *)
(***************************************************************************)
EmptyMap == [k \in {} |-> NullBanEntry]

MapPut(m, k, v) == [x \in (DOMAIN m) \cup {k} |-> IF x = k THEN v ELSE m[x]]

MapErase(m, k) == [x \in (DOMAIN m) \ {k} |-> m[x]]

\* m[k] of std::map: the entry, inserted value-initialised when absent
MapIndex(m, k) == IF k \in DOMAIN m THEN m ELSE MapPut(m, k, NullBanEntry)


(***************************************************************************)
(* The misbehaving-address buffer (a circular buffer of CNetAddr) as a     *)
(* sequence, oldest first, with its capacity kept beside it.               *)
(***************************************************************************)
\* std::find(begin, end, addr): the first position holding addr, 0 for end()
RingFind(ring, addr) ==
    IF \E i \in 1..Len(ring) : ring[i] = addr
    THEN CHOOSE i \in 1..Len(ring) : ring[i] = addr /\ \A j \in 1..(i - 1) : ring[j] # addr
    ELSE 0

\* erase(pos) of a valid position
RingEraseAt(ring, pos) == SubSeq(ring, 1, pos - 1) \o SubSeq(ring, pos + 1, Len(ring))

\* m_misbehaving_addrs.full()
RingFull(ring, capacity) == Len(ring) = capacity

\* push_back(addr): overwrites the oldest element of a full buffer
RingPushBack(ring, capacity, addr) ==
    IF RingFull(ring, capacity) THEN Append(Tail(ring), addr) ELSE Append(ring, addr)

\* How a step of the program ends: normally, on a failed assert() (the process
\* aborts), or on undefined behaviour that the build turned into a crash.
NoFault == "none"
AssertFault == "assert"
UBFault == "ub"

\* erase(std::find(begin, end, addr)): when addr is absent the iterator is
\* end() and erase is undefined; the build crashes or leaves the buffer alone.
\* The result is the set of [ring, fault] outcomes.
RingEraseFound(ring, addr) ==
    IF RingFind(ring, addr) # 0
    THEN {[ring |-> RingEraseAt(ring, RingFind(ring, addr)), fault |-> NoFault]}
    ELSE {[ring |-> ring, fault |-> UBFault], [ring |-> ring, fault |-> NoFault]}

(***************************************************************************)
(* The state BanMan guards with m_cs_banned, as one record:                *)
(*   addrs   m_banned_addrs          subnets  m_banned_subnets             *)
(*   ring    m_misbehaving_addrs     dirty    m_is_dirty                   *)
(***************************************************************************)
BanState(addrs, subnets, ring, dirty) ==
    [addrs |-> addrs, subnets |-> subnets, ring |-> ring, dirty |-> dirty]

\* a map without the entries with now > nBanUntil
SweepMap(m, t) == [k \in {x \in DOMAIN m : ~(t > m[x].nBanUntil)} |-> m[k]]

\* SweepBanned(), the part under the lock: [st, notify_ui]
SweepLocked(st, t) ==
    LET subnets == SweepMap(st.subnets, t)
        addrs == SweepMap(st.addrs, t)
        removed == (DOMAIN subnets # DOMAIN st.subnets) \/ (DOMAIN addrs # DOMAIN st.addrs)
    IN  [st |-> BanState(addrs, subnets, st.ring, st.dirty \/ removed),
         notify_ui |-> removed]

\* how many BannedListChanged() calls a flag stands for
Calls(flag) == IF flag THEN 1 ELSE 0

\* GetBanned's copy without the loop over m_banned_addrs (lines 248-250)
SubnetsOnlyBanmap(st) == st.subnets

\* the banmap GetBanned() copies out, once it has swept: the subnets, then
\* every banned address under the key CSubNet(addr)
MergedBanmap(st) ==
    [k \in (DOMAIN st.subnets) \cup {CSubNet(a) : a \in DOMAIN st.addrs} |->
        IF IsSingleAddr(k) /\ SingleAddr(k) \in DOMAIN st.addrs
        THEN st.addrs[SingleAddr(k)]
        ELSE st.subnets[k]]

\* GetBanned(banmap): [st, banmap, notified]
GetBanned(st, t) ==
    LET sw == SweepLocked(st, t)
    IN  [st |-> sw.st, banmap |-> MergedBanmap(sw.st), notified |-> Calls(sw.notify_ui)]

\* what m_ban_db.Write did in a call: not reached, succeeded or failed
NoWrite == "none"
WriteOk == "ok"
WriteFailed == "failed"

\* lines 61-63, with the dirty flag set to false whatever Write answered
MarkCleanAlways(st, write_ok) == [st EXCEPT !.dirty = FALSE]

\* lines 61-63: if (m_ban_db.Write(banmap)) SetBannedSetDirty(false)
MarkCleanIfWritten(st, write_ok) == IF write_ok THEN [st EXCEPT !.dirty = FALSE] ELSE st

\* DumpBanlist() run without interruption; write_ok is the answer of
\* m_ban_db.Write.  [st, notified, write, banmap]: banmap is what Write was
\* handed (the empty map when it was not called).
DumpBanlist(st, t, write_ok) ==
    LET sw == SweepLocked(st, t)
        gb == GetBanned(sw.st, t)
    IN  IF ~sw.st.dirty
        THEN [st |-> sw.st, notified |-> Calls(sw.notify_ui), write |-> NoWrite,
              banmap |-> EmptyMap]
        ELSE [st |-> MarkCleanIfWritten(gb.st, write_ok),
              notified |-> Calls(sw.notify_ui) + gb.notified,
              write |-> IF write_ok THEN WriteOk ELSE WriteFailed,
              banmap |-> gb.banmap]

\* a call that does not reach DumpBanlist
NoDump(st) == [st |-> st, notified |-> 0, write |-> NoWrite, banmap |-> EmptyMap]

\* the ways a call can go on from st: through DumpBanlist when dumps holds,
\* with either answer of m_ban_db.Write
DumpIf(dumps, st, t) ==
    IF dumps THEN {DumpBanlist(st, t, write_ok) : write_ok \in BOOLEAN} ELSE {NoDump(st)}

(***************************************************************************)
(* Ban(sub_net, ban_reason, ban_time_offset, since_unix_epoch)             *)
(***************************************************************************)
\* the nBanUntil that Ban computes from its arguments at time t
BanUntil(t, ban_time_offset, since_unix_epoch) ==
    LET normalized_ban_time_offset ==
            IF ban_time_offset <= 0 THEN m_default_ban_time ELSE ban_time_offset
        normalized_since_unix_epoch ==
            IF ban_time_offset <= 0 THEN FALSE ELSE since_unix_epoch
    IN  (IF normalized_since_unix_epoch THEN 0 ELSE t) + normalized_ban_time_offset

\* the reason of the entry that the buffer's overflow erases from
\* m_banned_addrs, "" when nothing is erased
NothingEvicted == ""

\* line 177 without its return: no ban stands against another reason
ManualStandsNever(old_ban_entry, ban_reason) == FALSE

\* line 177: a manual ban stands against a ban for any other reason
ManualStands(old_ban_entry, ban_reason) ==
    old_ban_entry.banReason = BanReasonManuallyAdded /\ ban_reason # BanReasonManuallyAdded

\* line 178: ban_reason_upgrade
BanReasonUpgrade(old_ban_entry, ban_reason) ==
    old_ban_entry.banReason = BanReasonNodeMisbehaving /\ ban_reason # BanReasonNodeMisbehaving

\* line 179: whether the new entry replaces the old one
BanApplies(old_ban_entry, ban_entry) ==
    \/ old_ban_entry.nBanUntil < ban_entry.nBanUntil
    \/ BanReasonUpgrade(old_ban_entry, ban_entry.banReason)

\* line 197, erasing the back of the buffer in place of the front
EraseNewMisbehaving(addrs, ring) == MapErase(addrs, ring[Len(ring)])

\* line 197: m_banned_addrs.erase(old_misbehaving), the front of the buffer
EraseOldMisbehaving(addrs, ring) == MapErase(addrs, Head(ring))

\* one way the locked block of Ban can end
BanOutcome(st, applied, fault, evicted) ==
    [st |-> st, applied |-> applied, fault |-> fault, evicted |-> evicted]

\* The block of Ban under the lock.  capacity is m_misbehaving_addrs.capacity().
\* The result is the set of outcomes: one, unless the block runs into an
\* erase(end()) or writes through a reference to an erased map node.
BanLocked(st, capacity, sub_net, ban_entry) ==
    LET ban_reason == ban_entry.banReason
        is_single_addr == IsSingleAddr(sub_net)
        addr == SingleAddr(sub_net)
        \* auto& old_ban_entry = is_single_addr ? m_banned_addrs[*addr] : m_banned_subnets[sub_net]
        addrs1 == IF is_single_addr THEN MapIndex(st.addrs, addr) ELSE st.addrs
        subnets1 == IF is_single_addr THEN st.subnets ELSE MapIndex(st.subnets, sub_net)
        old_ban_entry == IF is_single_addr THEN addrs1[addr] ELSE subnets1[sub_net]
        st1 == BanState(addrs1, subnets1, st.ring, st.dirty)
        \* old_ban_entry = ban_entry; m_is_dirty = true, with the buffer as given
        Written(addrs, ring) ==
            BanState(IF is_single_addr THEN MapPut(addrs, addr, ban_entry) ELSE addrs,
                     IF is_single_addr THEN subnets1 ELSE MapPut(subnets1, sub_net, ban_entry),
                     ring, TRUE)
    IN  IF ManualStands(old_ban_entry, ban_reason)
        THEN {BanOutcome(st1, FALSE, NoFault, NothingEvicted)}
        ELSE IF ~BanApplies(old_ban_entry, ban_entry)
        THEN {BanOutcome(st1, FALSE, NoFault, NothingEvicted)}
        ELSE IF capacity = 0
        THEN {BanOutcome(Written(addrs1, st.ring), TRUE, NoFault, NothingEvicted)}
        ELSE IF old_ban_entry.nBanUntil # 0
        THEN IF BanReasonUpgrade(old_ban_entry, ban_reason)
             THEN IF ~is_single_addr
                  THEN {BanOutcome(st1, FALSE, AssertFault, NothingEvicted)}
                  ELSE {IF e.fault = NoFault
                        THEN BanOutcome(Written(addrs1, e.ring), TRUE, NoFault, NothingEvicted)
                        ELSE BanOutcome(st1, FALSE, e.fault, NothingEvicted)
                        : e \in RingEraseFound(st.ring, addr)}
             ELSE {BanOutcome(Written(addrs1, st.ring), TRUE, NoFault, NothingEvicted)}
        ELSE IF ban_reason = BanReasonNodeMisbehaving
        THEN IF ~is_single_addr
             THEN {BanOutcome(st1, FALSE, AssertFault, NothingEvicted)}
             ELSE IF RingFull(st.ring, capacity)
             THEN LET old_misbehaving == Head(st.ring)
                      evicted == IF old_misbehaving \in DOMAIN addrs1
                                 THEN addrs1[old_misbehaving].banReason
                                 ELSE NothingEvicted
                      addrs2 == EraseOldMisbehaving(addrs1, st.ring)
                      ring2 == RingPushBack(st.ring, capacity, addr)
                  IN  IF old_misbehaving = addr
                      \* old_ban_entry now refers to the erased node: the write
                      \* through it is lost, or the build crashes on it
                      THEN {BanOutcome(BanState(addrs2, subnets1, ring2, TRUE),
                                       TRUE, NoFault, evicted),
                            BanOutcome(BanState(addrs2, subnets1, ring2, st.dirty),
                                       FALSE, UBFault, evicted)}
                      ELSE {BanOutcome(Written(addrs2, ring2), TRUE, NoFault, evicted)}
             ELSE {BanOutcome(Written(addrs1, RingPushBack(st.ring, capacity, addr)),
                              TRUE, NoFault, NothingEvicted)}
        ELSE {BanOutcome(Written(addrs1, st.ring), TRUE, NoFault, NothingEvicted)}

(***************************************************************************)
(* Unban(sub_net): the block under the lock, as the set of                 *)
(* [st, removed, fault] outcomes; removed is FALSE where Unban returns     *)
(* false from inside the block.                                            *)
(***************************************************************************)
\* lines 227 and 233, with m_is_dirty set before the return
UnbanNotFoundDirty(st) ==
    [st |-> [st EXCEPT !.dirty = TRUE], removed |-> FALSE, fault |-> NoFault]

\* lines 227 and 233: the key has no entry, return false
UnbanNotFound(st) == [st |-> st, removed |-> FALSE, fault |-> NoFault]

UnbanLocked(st, sub_net) ==
    LET addr == SingleAddr(sub_net)
    IN  IF IsSingleAddr(sub_net)
        THEN IF addr \notin DOMAIN st.addrs
             THEN {UnbanNotFound(st)}
             ELSE IF st.addrs[addr].banReason = BanReasonNodeMisbehaving
             THEN {IF e.fault = NoFault
                   THEN [st |-> BanState(MapErase(st.addrs, addr), st.subnets, e.ring, TRUE),
                         removed |-> TRUE, fault |-> NoFault]
                   ELSE [st |-> st, removed |-> FALSE, fault |-> e.fault]
                   : e \in RingEraseFound(st.ring, addr)}
             ELSE {[st |-> BanState(MapErase(st.addrs, addr), st.subnets, st.ring, TRUE),
                    removed |-> TRUE, fault |-> NoFault]}
        ELSE IF sub_net \notin DOMAIN st.subnets
             THEN {UnbanNotFound(st)}
             ELSE {[st |-> BanState(st.addrs, MapErase(st.subnets, sub_net), st.ring, TRUE),
                    removed |-> TRUE, fault |-> NoFault]}

\* ClearBanned(), the block under the lock
ClearLocked(st) == BanState(EmptyMap, EmptyMap, <<>>, TRUE)

\* SetBanned without the test of IsSingleAddr (line 262): every key goes to
\* m_banned_subnets
SetBannedAsSubnets(st, banmap) == BanState(EmptyMap, banmap, st.ring, TRUE)

\* SetBanned(banmap): the buffer of misbehaving addresses is left as it is
SetBannedLocked(st, banmap) ==
    BanState([a \in {SingleAddr(k) : k \in {x \in DOMAIN banmap : IsSingleAddr(x)}} |->
                 banmap[CSubNet(a)]],
             [k \in {x \in DOMAIN banmap : ~IsSingleAddr(x)} |-> banmap[k]],
             st.ring, TRUE)

(***************************************************************************)
(* The state of the program.                                               *)
(***************************************************************************)
VARIABLES
    now,                  \* GetTime()
    m_banned_addrs,       \* CNetAddr -> CBanEntry
    m_banned_subnets,     \* CSubNet -> CBanEntry
    m_misbehaving_addrs,  \* the buffer of misbehaving addresses, oldest first
    m_limit,              \* m_misbehaving_addrs.capacity()
    m_is_dirty,
    fault,                \* NoFault while the process runs
    call,                 \* the last call made and what it answered
    flood,                \* the misbehaving addresses banned so far, or Spoiled
    pc,                   \* where each thread stands in DumpBanlist (SpecFlush)
    banmap_of,            \* each thread's local banmap in DumpBanlist (SpecFlush)
    banlist_dat           \* the banmap of the last Write that succeeded (SpecFlush)

vars == <<now, m_banned_addrs, m_banned_subnets, m_misbehaving_addrs, m_limit,
          m_is_dirty, fault, call, flood, pc, banmap_of, banlist_dat>>

\* what only the threads of SpecFlush change: the specifications of whole
\* calls keep every thread idle and do not record what is written
threads == <<pc, banmap_of, banlist_dat>>

\* what only the specifications of whole calls change
calls == <<call, flood>>

Threads == {1, 2}

\* the guarded state as one record
Guarded == BanState(m_banned_addrs, m_banned_subnets, m_misbehaving_addrs, m_is_dirty)

\* the guarded state becomes st
Becomes(st) ==
    /\ m_banned_addrs' = st.addrs
    /\ m_banned_subnets' = st.subnets
    /\ m_misbehaving_addrs' = st.ring
    /\ m_is_dirty' = st.dirty

\* The record of a call: its name and arguments (sub_net and ban_reason; {}
\* and "" where the call has none), the value it returned (for Ban, whether
\* the entry was written), the number of BannedListChanged() calls it made,
\* what its m_ban_db.Write did and the reason of the entry its overflow erased.
Call(name, sub_net, ban_reason, ret, notified, write, evicted) ==
    [name |-> name, sub_net |-> sub_net, ban_reason |-> ban_reason, ret |-> ret,
     notified |-> notified, write |-> write, evicted |-> evicted]

\* The addresses banned so far, in order, while every call since the
\* constructor was a first NodeMisbehaving ban of another address; Spoiled
\* from the first other call on.
Spoiled == <<0>>

FloodAfterBan(old_flood, sub_net, ban_reason, applied) ==
    IF /\ old_flood # Spoiled
       /\ applied
       /\ ban_reason = BanReasonNodeMisbehaving
       /\ IsSingleAddr(sub_net)
       /\ \A i \in 1..Len(old_flood) : old_flood[i] # SingleAddr(sub_net)
    THEN Append(old_flood, SingleAddr(sub_net))
    ELSE Spoiled

\* the state once the constructor has run on a missing or empty banlist.dat
\* and SetMisbehavingLimit(limit) has set the capacity, limit drawn from L
InitWith(L) ==
    /\ now = 0
    /\ m_banned_addrs = EmptyMap
    /\ m_banned_subnets = EmptyMap
    /\ m_misbehaving_addrs = <<>>
    /\ m_limit \in L
    /\ m_is_dirty = FALSE
    /\ fault = NoFault
    /\ call = Call("BanMan", {}, "", TRUE, 0, NoWrite, NothingEvicted)
    /\ flood = <<>>
    /\ pc = [t \in Threads |-> "idle"]
    /\ banmap_of = [t \in Threads |-> EmptyMap]
    /\ banlist_dat = EmptyMap

\* time passes
Tick ==
    /\ fault = NoFault
    /\ now < MaxTime
    /\ now' = now + 1
    /\ UNCHANGED <<m_banned_addrs, m_banned_subnets, m_misbehaving_addrs, m_limit,
                   m_is_dirty, fault, flood, threads>>
    /\ call' = Call("Tick", {}, "", FALSE, 0, NoWrite, NothingEvicted)

\* Ban(sub_net, ban_reason, ban_time_offset, since_unix_epoch), and
\* Ban(net_addr, ...) through it
Ban(sub_net, ban_reason, ban_time_offset, since_unix_epoch) ==
    LET ban_until == BanUntil(now, ban_time_offset, since_unix_epoch)
        ban_entry == CBanEntry(ban_until, ban_reason)
    IN  /\ fault = NoFault
        /\ \E o \in BanLocked(Guarded, m_limit, sub_net, ban_entry) :
           \E dump \in DumpIf(o.applied /\ ban_reason = BanReasonManuallyAdded, o.st, now) :
              /\ Becomes(dump.st)
              /\ fault' = o.fault
              /\ call' = Call("Ban", sub_net, ban_reason, o.applied,
                              Calls(o.applied) + dump.notified, dump.write, o.evicted)
              /\ flood' = FloodAfterBan(flood, sub_net, ban_reason,
                                        o.applied /\ o.fault = NoFault)
        /\ UNCHANGED <<now, m_limit, threads>>

\* Unban(sub_net), and Unban(net_addr) through it
Unban(sub_net) ==
    /\ fault = NoFault
    /\ \E o \in UnbanLocked(Guarded, sub_net) :
       \E dump \in DumpIf(o.removed, o.st, now) :
          /\ Becomes(dump.st)
          /\ fault' = o.fault
          /\ call' = Call("Unban", sub_net, "", o.removed,
                          Calls(o.removed) + dump.notified, dump.write, NothingEvicted)
          /\ flood' = Spoiled
    /\ UNCHANGED <<now, m_limit, threads>>

\* SweepBanned()
SweepBanned ==
    /\ fault = NoFault
    /\ LET sw == SweepLocked(Guarded, now)
       IN  /\ Becomes(sw.st)
           /\ call' = Call("SweepBanned", {}, "", FALSE, Calls(sw.notify_ui),
                           NoWrite, NothingEvicted)
    /\ flood' = Spoiled
    /\ UNCHANGED <<now, m_limit, fault, threads>>

\* DumpBanlist(), called on its own (the periodic flush, the destructor)
Dump(write_ok) ==
    /\ fault = NoFault
    /\ LET dump == DumpBanlist(Guarded, now, write_ok)
       IN  /\ Becomes(dump.st)
           /\ call' = Call("DumpBanlist", {}, "", FALSE, dump.notified,
                           dump.write, NothingEvicted)
    /\ flood' = Spoiled
    /\ UNCHANGED <<now, m_limit, fault, threads>>

\* ClearBanned()
ClearBanned(write_ok) ==
    /\ fault = NoFault
    /\ LET dump == DumpBanlist(ClearLocked(Guarded), now, write_ok)
       IN  /\ Becomes(dump.st)
           /\ call' = Call("ClearBanned", {}, "", FALSE, dump.notified + 1,
                           dump.write, NothingEvicted)
    /\ flood' = Spoiled
    /\ UNCHANGED <<now, m_limit, fault, threads>>

\* SetBanned(banmap)
SetBanned(banmap) ==
    /\ fault = NoFault
    /\ Becomes(SetBannedLocked(Guarded, banmap))
    /\ call' = Call("SetBanned", {}, "", FALSE, 0, NoWrite, NothingEvicted)
    /\ flood' = Spoiled
    /\ UNCHANGED <<now, m_limit, fault, threads>>

\* the banmaps over the keys K with the entries E, of at most one entry
BanmapsOver(K, E) == UNION {[D -> E] : D \in {X \in SUBSET K : Cardinality(X) <= 1}}

\* the entries a banlist.dat read back holds, with reasons of R
BanmapEntries(R) ==
    {CBanEntry(u, r) : u \in {1, MaxTime}, r \in R \ {BanReasonUnknown}}

\* a call of Ban, Unban, SweepBanned, DumpBanlist or ClearBanned, or time
\* passing, with sub_net drawn from K, ban_reason from R, ban_time_offset
\* from O and since_unix_epoch from E
TableCall(K, R, O, E) ==
    \/ Tick
    \/ \E sub_net \in K, ban_reason \in R, ban_time_offset \in O, since_unix_epoch \in E :
          Ban(sub_net, ban_reason, ban_time_offset, since_unix_epoch)
    \/ \E sub_net \in K : Unban(sub_net)
    \/ SweepBanned
    \/ \E write_ok \in BOOLEAN : Dump(write_ok)
    \/ \E write_ok \in BOOLEAN : ClearBanned(write_ok)

\* any call: those, or SetBanned with a banmap over K
AnyCall(K, R, O, E) ==
    \/ TableCall(K, R, O, E)
    \/ \E banmap \in BanmapsOver(K, BanmapEntries(R)) : SetBanned(banmap)

\* the keys, reasons, offsets and flags of the calls on one address and a
\* subnet that holds it
OneAddrKeys == {CSubNet(1), {1, 2}}
Offsets == 0..MaxOffset

\* with the buffer unbounded (capacity 0) or of one address
Init == InitWith({0, 1})

Next == AnyCall(OneAddrKeys, BanReasons, Offsets, BOOLEAN)

Spec == Init /\ [][Next]_vars

(***************************************************************************)
(* The queries.                                                            *)
(***************************************************************************)
\* whether the table of st holds an entry under the key sub_net
HasEntry(st, sub_net) ==
    IF IsSingleAddr(sub_net)
    THEN SingleAddr(sub_net) \in DOMAIN st.addrs
    ELSE sub_net \in DOMAIN st.subnets

\* that entry
EntryOf(st, sub_net) ==
    IF IsSingleAddr(sub_net) THEN st.addrs[SingleAddr(sub_net)] ELSE st.subnets[sub_net]

\* IsBanned(CNetAddr) without its loop over m_banned_subnets (lines 125-132)
IsBannedAddrOnly(st, t, net_addr) ==
    net_addr \in DOMAIN st.addrs /\ t < st.addrs[net_addr].nBanUntil

\* IsBanned(CNetAddr net_addr) at time t
IsBanned(st, t, net_addr) ==
    \/ net_addr \in DOMAIN st.addrs /\ t < st.addrs[net_addr].nBanUntil
    \/ \E sub_net \in DOMAIN st.subnets :
          t < st.subnets[sub_net].nBanUntil /\ Match(sub_net, net_addr)

\* the loop of IsBannedLevel over the subnets left, keys, entered with level
RECURSIVE SubnetLevel(_, _, _, _, _)
SubnetLevel(subnets, keys, t, net_addr, level) ==
    IF keys = {}
    THEN level
    ELSE LET sub_net == CHOOSE k \in keys : TRUE
             ban_entry == subnets[sub_net]
         IN  IF t < ban_entry.nBanUntil /\ Match(sub_net, net_addr)
             THEN IF ban_entry.banReason # BanReasonNodeMisbehaving
                  THEN 2
                  ELSE SubnetLevel(subnets, keys \ {sub_net}, t, net_addr, 1)
             ELSE SubnetLevel(subnets, keys \ {sub_net}, t, net_addr, level)

\* IsBannedLevel, with the level of the address entry returned at once
IsBannedLevelAddrFirst(st, t, net_addr) ==
    IF net_addr \in DOMAIN st.addrs /\ t < st.addrs[net_addr].nBanUntil
    THEN IF st.addrs[net_addr].banReason # BanReasonNodeMisbehaving THEN 2 ELSE 1
    ELSE SubnetLevel(st.subnets, DOMAIN st.subnets, t, net_addr, 0)

\* IsBannedLevel(CNetAddr net_addr) at time t
IsBannedLevel(st, t, net_addr) ==
    IF net_addr \in DOMAIN st.addrs /\ t < st.addrs[net_addr].nBanUntil
    THEN IF st.addrs[net_addr].banReason # BanReasonNodeMisbehaving
         THEN 2
         ELSE SubnetLevel(st.subnets, DOMAIN st.subnets, t, net_addr, 1)
    ELSE SubnetLevel(st.subnets, DOMAIN st.subnets, t, net_addr, 0)

(***************************************************************************)
(* C1.  Manual bans take precedence.                                       *)
(***************************************************************************)
\* the call just made was Ban on a key that held a manual ban
BanOnManual ==
    /\ call'.name = "Ban"
    /\ HasEntry(Guarded, call'.sub_net)
    /\ EntryOf(Guarded, call'.sub_net).banReason = BanReasonManuallyAdded

\* the key of the call holds the same entry after the call as before it
EntryKept ==
    /\ HasEntry(Guarded', call'.sub_net)
    /\ EntryOf(Guarded', call'.sub_net) = EntryOf(Guarded, call'.sub_net)

\* the entry the call asked for, a manual ban until ban_until, was to
\* replace a manual ban with an earlier expiry
ManualBanLater(ban_until) ==
    /\ call'.ban_reason = BanReasonManuallyAdded
    /\ ban_until > EntryOf(Guarded, call'.sub_net).nBanUntil
    /\ \E ban_time_offset \in Offsets, since_unix_epoch \in BOOLEAN :
          /\ ban_until = BanUntil(now, ban_time_offset, since_unix_epoch)
          /\ Ban(call'.sub_net, call'.ban_reason, ban_time_offset, since_unix_epoch)

\* the key of the call holds a manual ban until ban_until
EntryReplaced(ban_until) ==
    /\ HasEntry(Guarded', call'.sub_net)
    /\ EntryOf(Guarded', call'.sub_net) = CBanEntry(ban_until, BanReasonManuallyAdded)

\* the expiries a call can ask for
BanUntils == 1..(MaxTime + MaxOffset + m_default_ban_time)

\* C1 as claimed: a ban for another reason leaves a manual ban as it is, and a
\* manual ban with a later expiry replaces it with the new expiry.
C1_AsClaimed ==
    [][BanOnManual =>
        /\ call'.ban_reason # BanReasonManuallyAdded => EntryKept
        /\ \A ban_until \in BanUntils :
              ManualBanLater(ban_until) => EntryReplaced(ban_until)]_vars

\* C1, amended: a ban for another reason leaves a manual ban as it is; a manual
\* ban with a later expiry replaces it with the new expiry, unless that expiry
\* is already behind the clock (now > nBanUntil): then the DumpBanlist that
\* ends the call sweeps the new entry out of the table.
C1_ManualPrecedence ==
    [][BanOnManual =>
        /\ call'.ban_reason # BanReasonManuallyAdded => EntryKept
        /\ \A ban_until \in BanUntils :
              ManualBanLater(ban_until) =>
                  IF now > ban_until
                  THEN ~HasEntry(Guarded', call'.sub_net)
                  ELSE EntryReplaced(ban_until)]_vars

\* C1's case: a misbehaving ban was asked for a key under a manual ban, which stands
C1_Witness ==
    /\ call.name = "Ban"
    /\ call.ban_reason = BanReasonNodeMisbehaving
    /\ ~call.ret
    /\ HasEntry(Guarded, call.sub_net)
    /\ EntryOf(Guarded, call.sub_net).banReason = BanReasonManuallyAdded

(***************************************************************************)
(* SpecRing: the calls on three addresses, banned for misbehaving or by    *)
(* hand for one second, with a buffer of up to MaxLimit addresses.  Every  *)
(* entry of the table was put there by Ban.                                *)
(***************************************************************************)
RingInit == InitWith(1..MaxLimit)

RingNext ==
    TableCall({CSubNet(a) : a \in NetAddrs},
              {BanReasonNodeMisbehaving, BanReasonManuallyAdded}, {1}, {FALSE})

SpecRing == RingInit /\ [][RingNext]_vars

(***************************************************************************)
(* C2.  What the overflow of the buffer erases.                            *)
(***************************************************************************)
\* C2 as claimed: the entry that the overflow of the buffer erases from
\* m_banned_addrs is never a manual ban.
C2_AsClaimed == fault = NoFault => call.evicted # BanReasonManuallyAdded

(***************************************************************************)
(* SpecFlood: from the empty table, addresses are banned for misbehaving   *)
(* while time passes, and nothing else is called.                          *)
(***************************************************************************)
FloodNext ==
    \/ Tick
    \/ \E net_addr \in NetAddrs, ban_time_offset \in Offsets :
          Ban(CSubNet(net_addr), BanReasonNodeMisbehaving, ban_time_offset, FALSE)

SpecFlood == RingInit /\ [][FloodNext]_vars

(***************************************************************************)
(* C3.  One ban more than the buffer holds.                                *)
(***************************************************************************)
\* no entry of the table has run out
NoneExpired ==
    /\ \A a \in DOMAIN m_banned_addrs : now < m_banned_addrs[a].nBanUntil
    /\ \A k \in DOMAIN m_banned_subnets : now < m_banned_subnets[k].nBanUntil

\* m_limit + 1 distinct addresses were banned for misbehaving, and nothing else
Flooded == flood # Spoiled /\ m_limit >= 1 /\ Len(flood) = m_limit + 1

\* C3: once m_limit + 1 distinct addresses have been banned for misbehaving,
\* starting from the empty table and with no ban run out, the first of them
\* has no entry and is not banned, and the others have one and are banned.
C3_Overflow ==
    (Flooded /\ NoneExpired) =>
        /\ flood[1] \notin DOMAIN m_banned_addrs
        /\ ~IsBanned(Guarded, now, flood[1])
        /\ \A i \in 2..Len(flood) :
              /\ flood[i] \in DOMAIN m_banned_addrs
              /\ IsBanned(Guarded, now, flood[i])

\* C3's case: a buffer of two, addresses 1, 2 and 3 banned for two seconds at
\* times 0, 1 and 2, which leaves 2 banned until 3 and 3 until 4
C3_Witness ==
    /\ Flooded /\ NoneExpired
    /\ m_limit = 2
    /\ flood = <<1, 2, 3>>
    /\ now = 2
    /\ DOMAIN m_banned_addrs = {2, 3}
    /\ m_banned_addrs[2].nBanUntil = 3
    /\ m_banned_addrs[3].nBanUntil = 4

(***************************************************************************)
(* C4.  The longer ban wins.                                               *)
(***************************************************************************)
\* the call just made ran to its end: no assert failed, nothing undefined
Returned == fault' = NoFault

\* the larger of two times
Later(t1, t2) == IF t1 < t2 THEN t2 ELSE t1

\* the call just made was Ban for ban_time_offset seconds from now, on a key
\* that held no entry or an entry with the reason of the call
BanAgain(ban_time_offset) ==
    /\ call'.name = "Ban"
    /\ HasEntry(Guarded, call'.sub_net) =>
          EntryOf(Guarded, call'.sub_net).banReason = call'.ban_reason
    /\ Ban(call'.sub_net, call'.ban_reason, ban_time_offset, FALSE)

\* C4 as claimed: a ban for d seconds on a key that holds no ban, or a ban
\* with the same reason, leaves the key banned until the later of now + d and
\* the expiry it had; so d1 then d2 > d1, and d2 then d1, both end at now + d2.
C4_AsClaimed ==
    [][\A d \in 1..MaxOffset :
          (BanAgain(d) /\ Returned) =>
              /\ HasEntry(Guarded', call'.sub_net)
              /\ EntryOf(Guarded', call'.sub_net) =
                    CBanEntry(Later(now + d,
                                    IF HasEntry(Guarded, call'.sub_net)
                                    THEN EntryOf(Guarded, call'.sub_net).nBanUntil
                                    ELSE 0),
                              call'.ban_reason)]_vars

(***************************************************************************)
(* C5.  A misbehaving ban made manual leaves the buffer.                   *)
(***************************************************************************)
\* the ring without the address, the others in their order
Without(ring, addr) == SelectSeq(ring, LAMBDA a : a # addr)

\* the call just made was a manual Ban of an address banned for misbehaving
Upgrade ==
    /\ call'.name = "Ban"
    /\ call'.ban_reason = BanReasonManuallyAdded
    /\ IsSingleAddr(call'.sub_net)
    /\ HasEntry(Guarded, call'.sub_net)
    /\ EntryOf(Guarded, call'.sub_net).banReason = BanReasonNodeMisbehaving

\* C5 as claimed (its part on the buffer): with a bounded buffer, a manual ban
\* of an address banned for misbehaving takes the address out of the buffer
\* and leaves the other addresses in it, in their order.
C5_AsClaimed ==
    [][(m_limit # 0 /\ Upgrade /\ Returned) =>
          m_misbehaving_addrs' = Without(m_misbehaving_addrs, SingleAddr(call'.sub_net))]_vars

(***************************************************************************)
(* SpecQuery: IsBannedLevel asked of every table over one address and two  *)
(* subnets that hold it, at every time.                                    *)
(***************************************************************************)
QueryKeys == {CSubNet(1), {1, 2}, {1, 2, 3}}

\* the entries of those tables
QueryEntries == {CBanEntry(u, r) : u \in {1, MaxTime}, r \in BanReasons}

\* the tables: any of the keys banned, with the buffer unbounded
QueryTables ==
    UNION {[D -> QueryEntries] : D \in SUBSET QueryKeys}

\* the state after the bans that filled the table
QueryInit ==
    /\ now = 0
    /\ \E banmap \in QueryTables :
          LET st == SetBannedLocked(BanState(EmptyMap, EmptyMap, <<>>, FALSE), banmap)
          IN  /\ m_banned_addrs = st.addrs
              /\ m_banned_subnets = st.subnets
              /\ m_is_dirty = st.dirty
    /\ m_misbehaving_addrs = <<>>
    /\ m_limit = 0
    /\ fault = NoFault
    /\ call = Call("BanMan", {}, "", FALSE, 0, NoWrite, NothingEvicted)
    /\ flood = Spoiled
    /\ pc = [t \in Threads |-> "idle"]
    /\ banmap_of = [t \in Threads |-> EmptyMap]
    /\ banlist_dat = EmptyMap

\* IsBannedLevel(net_addr) is called
AskLevel(net_addr) ==
    /\ fault = NoFault
    /\ call' = Call("IsBannedLevel", CSubNet(net_addr), "",
                    IsBannedLevel(Guarded, now, net_addr), 0, NoWrite, NothingEvicted)
    /\ UNCHANGED <<now, m_banned_addrs, m_banned_subnets, m_misbehaving_addrs, m_limit,
                   m_is_dirty, fault, flood, threads>>

QueryNext ==
    \/ Tick
    \/ \E net_addr \in NetAddrs : AskLevel(net_addr)

SpecQuery == QueryInit /\ [][QueryNext]_vars

(***************************************************************************)
(* C6.  IsBannedLevel is the severest of the active bans that match.       *)
(***************************************************************************)
\* the entries in force at time t that cover net_addr: the one under the
\* address itself and those of the subnets that hold it
ActiveMatches(st, t, net_addr) ==
    {st.addrs[a] : a \in {x \in DOMAIN st.addrs : x = net_addr /\ t < st.addrs[x].nBanUntil}}
    \cup {st.subnets[k] : k \in {x \in DOMAIN st.subnets :
                                    Match(x, net_addr) /\ t < st.subnets[x].nBanUntil}}

\* 2 if one of them is no misbehaving ban, 1 if there are only misbehaving
\* bans, 0 if there is none
Severest(entries) ==
    IF \E e \in entries : e.banReason # BanReasonNodeMisbehaving THEN 2
    ELSE IF entries # {} THEN 1
    ELSE 0

\* C6: IsBannedLevel(a) answers the severest of the active entries matching a.
C6_Level ==
    call.name = "IsBannedLevel" =>
        call.ret = Severest(ActiveMatches(Guarded, now, SingleAddr(call.sub_net)))

\* C6's case: the address is under an active misbehaving ban of its own, a
\* subnet ban that has run out and an active manual ban of another subnet,
\* and the answer is 2
C6_Witness ==
    /\ call.name = "IsBannedLevel"
    /\ call.sub_net = CSubNet(1)
    /\ call.ret = 2
    /\ 1 \in DOMAIN m_banned_addrs
    /\ m_banned_addrs[1].banReason = BanReasonNodeMisbehaving
    /\ now < m_banned_addrs[1].nBanUntil
    /\ \E k \in DOMAIN m_banned_subnets : ~(now < m_banned_subnets[k].nBanUntil)
    /\ \E k \in DOMAIN m_banned_subnets :
          /\ now < m_banned_subnets[k].nBanUntil
          /\ m_banned_subnets[k].banReason = BanReasonManuallyAdded

(***************************************************************************)
(* C7.  What a sweep removes.                                              *)
(***************************************************************************)
\* the entries of a map that are active at time t (t < nBanUntil)
ActivePart(m, t) == [k \in {x \in DOMAIN m : t < m[x].nBanUntil} |-> m[k]]

\* C7 as claimed: SweepBanned at time now removes exactly the entries with
\* nBanUntil <= now, so that every entry it leaves is active.
C7_AsClaimed ==
    [][call'.name = "SweepBanned" =>
          /\ m_banned_addrs' = ActivePart(m_banned_addrs, now)
          /\ m_banned_subnets' = ActivePart(m_banned_subnets, now)]_vars

(***************************************************************************)
(* C8.  Unban of a key that is not banned.                                 *)
(***************************************************************************)
\* C8: Unban of a key without an entry returns false, leaves both maps, the
\* buffer and the dirty flag as they are, and neither notifies nor writes.
C8_UnbanAbsent ==
    [][(call'.name = "Unban" /\ ~HasEntry(Guarded, call'.sub_net)) =>
          /\ call'.ret = FALSE
          /\ Guarded' = Guarded
          /\ call'.notified = 0
          /\ call'.write = NoWrite]_vars

\* C8's case: Unban of a subnet that is not banned, while an address in it is,
\* has returned false
C8_Witness ==
    /\ call.name = "Unban"
    /\ ~IsSingleAddr(call.sub_net)
    /\ ~HasEntry(Guarded, call.sub_net)
    /\ call.ret = FALSE
    /\ DOMAIN m_banned_addrs # {}

(***************************************************************************)
(* C10.  A dump whose write fails.                                         *)
(***************************************************************************)
\* C10: a call whose m_ban_db.Write fails leaves the set dirty, and one whose
\* write succeeds leaves it clean; a DumpBanlist whose write fails leaves the
\* table as its sweep left it; and a DumpBanlist of a dirty set always
\* reaches the write, so the dump after a failed one tries again.
C10_WriteFailure ==
    [][/\ call'.write = WriteFailed => m_is_dirty'
       /\ call'.write = WriteOk => ~m_is_dirty'
       /\ call'.name = "DumpBanlist" =>
             /\ call'.write = WriteFailed =>
                   /\ m_banned_addrs' = SweepLocked(Guarded, now).st.addrs
                   /\ m_banned_subnets' = SweepLocked(Guarded, now).st.subnets
             /\ m_is_dirty => call'.write # NoWrite]_vars

\* C10's case: a DumpBanlist has failed to write a table that holds a ban,
\* after an earlier write had failed too
C10_Witness ==
    /\ call.name = "DumpBanlist"
    /\ call.write = WriteFailed
    /\ m_is_dirty
    /\ DOMAIN m_banned_addrs # {}

(***************************************************************************)
(* SpecFlush: two threads call Ban, Unban, SweepBanned, ClearBanned and    *)
(* DumpBanlist.  A step is one block under m_cs_banned or one call of      *)
(* m_ban_db.Write; pc[t] is where thread t stands:                         *)
(*   "idle"    in no call                                                  *)
(*   "dump"    about to enter DumpBanlist, at the end of Ban, Unban or     *)
(*             ClearBanned                                                 *)
(*   "check"   in DumpBanlist, before BannedSetIsDirty()                   *)
(*   "export"  before GetBanned(banmap)                                    *)
(*   "write"   before m_ban_db.Write(banmap)                               *)
(*   "mark"    before SetBannedSetDirty(false)                             *)
(* banmap_of[t] is the local banmap of the DumpBanlist of t, banlist_dat   *)
(* the banmap of the last Write that succeeded.                            *)
(***************************************************************************)
\* thread t goes to the position p
Goto(t, p) == pc' = [pc EXCEPT ![t] = p]

\* the position after the locked block of a call that ends in DumpBanlist()
\* when dumps holds
AfterBlock(dumps) == IF dumps THEN "dump" ELSE "idle"

\* the locked block of Ban in thread t
ThreadBan(t, sub_net, ban_reason, ban_time_offset) ==
    LET ban_entry == CBanEntry(BanUntil(now, ban_time_offset, FALSE), ban_reason)
    IN  /\ fault = NoFault
        /\ pc[t] = "idle"
        /\ \E o \in BanLocked(Guarded, m_limit, sub_net, ban_entry) :
              /\ Becomes(o.st)
              /\ fault' = o.fault
              /\ Goto(t, AfterBlock(o.applied /\ ban_reason = BanReasonManuallyAdded))
        /\ UNCHANGED <<now, m_limit, calls, banmap_of, banlist_dat>>

\* the locked block of Unban in thread t
ThreadUnban(t, sub_net) ==
    /\ fault = NoFault
    /\ pc[t] = "idle"
    /\ \E o \in UnbanLocked(Guarded, sub_net) :
          /\ Becomes(o.st)
          /\ fault' = o.fault
          /\ Goto(t, AfterBlock(o.removed))
    /\ UNCHANGED <<now, m_limit, calls, banmap_of, banlist_dat>>

\* the locked block of ClearBanned in thread t
ThreadClear(t) ==
    /\ fault = NoFault
    /\ pc[t] = "idle"
    /\ Becomes(ClearLocked(Guarded))
    /\ Goto(t, "dump")
    /\ UNCHANGED <<now, m_limit, fault, calls, banmap_of, banlist_dat>>

\* SweepBanned() in thread t: called on its own (from idle, back to idle) or
\* as the first statement of DumpBanlist (from idle or at the end of another
\* call, on to the dirty check)
ThreadSweep(t, in_dump) ==
    /\ fault = NoFault
    /\ pc[t] \in (IF in_dump THEN {"idle", "dump"} ELSE {"idle"})
    /\ Becomes(SweepLocked(Guarded, now).st)
    /\ Goto(t, IF in_dump THEN "check" ELSE "idle")
    /\ UNCHANGED <<now, m_limit, fault, calls, banmap_of, banlist_dat>>

\* if (!BannedSetIsDirty()) return;
FlushCheck(t) ==
    /\ fault = NoFault
    /\ pc[t] = "check"
    /\ Goto(t, IF m_is_dirty THEN "export" ELSE "idle")
    /\ UNCHANGED <<now, m_banned_addrs, m_banned_subnets, m_misbehaving_addrs,
                   m_limit, m_is_dirty, fault, calls, banmap_of, banlist_dat>>

\* GetBanned(banmap)
FlushExport(t) ==
    /\ fault = NoFault
    /\ pc[t] = "export"
    /\ LET gb == GetBanned(Guarded, now)
       IN  /\ Becomes(gb.st)
           /\ banmap_of' = [banmap_of EXCEPT ![t] = gb.banmap]
    /\ Goto(t, "write")
    /\ UNCHANGED <<now, m_limit, fault, calls, banlist_dat>>

\* m_ban_db.Write(banmap)
FlushWrite(t, write_ok) ==
    /\ fault = NoFault
    /\ pc[t] = "write"
    /\ banlist_dat' = IF write_ok THEN banmap_of[t] ELSE banlist_dat
    /\ banmap_of' = [banmap_of EXCEPT ![t] = EmptyMap]
    /\ Goto(t, IF write_ok THEN "mark" ELSE "idle")
    /\ UNCHANGED <<now, m_banned_addrs, m_banned_subnets, m_misbehaving_addrs,
                   m_limit, m_is_dirty, fault, calls>>

\* SetBannedSetDirty(false)
FlushMark(t) ==
    /\ fault = NoFault
    /\ pc[t] = "mark"
    /\ m_is_dirty' = FALSE
    /\ Goto(t, "idle")
    /\ UNCHANGED <<now, m_banned_addrs, m_banned_subnets, m_misbehaving_addrs,
                   m_limit, fault, calls, banmap_of, banlist_dat>>

\* time passes, between any two steps
FlushTick ==
    /\ fault = NoFault
    /\ now < MaxTime
    /\ now' = now + 1
    /\ UNCHANGED <<m_banned_addrs, m_banned_subnets, m_misbehaving_addrs, m_limit,
                   m_is_dirty, fault, calls, threads>>

FlushInit == InitWith({1})

FlushNext ==
    \/ FlushTick
    \/ \E t \in Threads :
          \/ \E sub_net \in OneAddrKeys,
                ban_reason \in {BanReasonNodeMisbehaving, BanReasonManuallyAdded} :
                ThreadBan(t, sub_net, ban_reason, 1)
          \/ \E sub_net \in OneAddrKeys : ThreadUnban(t, sub_net)
          \/ ThreadClear(t)
          \/ \E in_dump \in BOOLEAN : ThreadSweep(t, in_dump)
          \/ FlushCheck(t)
          \/ FlushExport(t)
          \/ \E write_ok \in BOOLEAN : FlushWrite(t, write_ok)
          \/ FlushMark(t)

SpecFlush == FlushInit /\ [][FlushNext]_vars

(***************************************************************************)
(* C9.  The dirty flag under concurrent calls.                             *)
(***************************************************************************)
\* no thread is inside a call, DumpBanlist or other
NoFlushInProgress == \A t \in Threads : pc[t] = "idle"

\* C9 as claimed: whenever the process runs, no DumpBanlist is in progress
\* and the set is not dirty, the table in memory equals the banmap handed to
\* the last Write that succeeded.
C9_AsClaimed ==
    (fault = NoFault /\ NoFlushInProgress /\ ~m_is_dirty) =>
        MergedBanmap(Guarded) = banlist_dat

(***************************************************************************)
(* SpecStart: the constructor, run at any time on any banlist.dat of up to *)
(* three keys, readable or not.  banlist_dat is the banmap in the file;    *)
(* call.name is "" until the constructor has run.                          *)
(***************************************************************************)
\* lines 27-28 the other way round: sweep, then SetBannedSetDirty(false)
SweepThenMarkClean(st, t) ==
    LET sw == SweepLocked(st, t)
    IN  [st |-> [sw.st EXCEPT !.dirty = FALSE], notify_ui |-> sw.notify_ui]

\* lines 27-28: SetBannedSetDirty(false); SweepBanned()
MarkCleanThenSweep(st, t) == SweepLocked([st EXCEPT !.dirty = FALSE], t)

\* BanMan::BanMan at time t: read_ok is the answer of m_ban_db.Read, banmap
\* what it read, write_ok the answer of m_ban_db.Write if it is called.
\* [st, notified, write, banmap] as for DumpBanlist.
BanMan(t, read_ok, banmap, write_ok) ==
    LET st0 == BanState(EmptyMap, EmptyMap, <<>>, FALSE)
        sw == MarkCleanThenSweep(SetBannedLocked(st0, banmap), t)
    IN  IF read_ok
        THEN [st |-> sw.st, notified |-> Calls(sw.notify_ui), write |-> NoWrite,
              banmap |-> EmptyMap]
        ELSE DumpBanlist([st0 EXCEPT !.dirty = TRUE], t, write_ok)

\* the banmaps a banlist.dat holds
StartFiles ==
    UNION {[D -> BanmapEntries(BanReasons)] : D \in SUBSET QueryKeys}

StartInit ==
    /\ now \in 0..MaxTime
    /\ banlist_dat \in StartFiles
    /\ m_banned_addrs = EmptyMap
    /\ m_banned_subnets = EmptyMap
    /\ m_misbehaving_addrs = <<>>
    /\ m_limit = 0
    /\ m_is_dirty = FALSE
    /\ fault = NoFault
    /\ call = Call("", {}, "", FALSE, 0, NoWrite, NothingEvicted)
    /\ flood = <<>>
    /\ pc = [t \in Threads |-> "idle"]
    /\ banmap_of = [t \in Threads |-> EmptyMap]

\* the constructor runs; call.ret is what m_ban_db.Read answered
Start(read_ok, write_ok) ==
    /\ call.name = ""
    /\ LET made == BanMan(now, read_ok, banlist_dat, write_ok)
       IN  /\ Becomes(made.st)
           /\ call' = Call("BanMan", {}, "", read_ok, made.notified, made.write,
                           NothingEvicted)
           /\ banlist_dat' = IF made.write = WriteOk THEN made.banmap ELSE banlist_dat
    /\ UNCHANGED <<now, m_limit, fault, flood, pc, banmap_of>>

StartNext ==
    \/ \E read_ok \in BOOLEAN, write_ok \in BOOLEAN : Start(read_ok, write_ok)
    \/ call.name # "" /\ Tick

SpecStart == StartInit /\ [][StartNext]_vars

(***************************************************************************)
(* C11.  The table and the dirty flag after the constructor.               *)
(***************************************************************************)
\* the entries of a banmap whose time has not run out at time t
NotYetOver(banmap, t) ==
    [k \in {x \in DOMAIN banmap : banmap[x].nBanUntil >= t} |-> banmap[k]]

\* the constructor has just run
Started == call.name = "BanMan"

\* what C11 says of a banlist.dat that could not be read: the table is
\* empty, a write was tried, and the set is clean if and only if it succeeded
StartedEmpty ==
    /\ MergedBanmap(Guarded) = EmptyMap
    /\ call.write # NoWrite
    /\ m_is_dirty = (call.write # WriteOk)

\* the table holds what was read, but the entries the sweep took out
StartedLoaded == MergedBanmap(Guarded) = NotYetOver(banlist_dat, now)

\* C11 as claimed: after a read that succeeded the table holds the entries
\* read but those the sweep discarded, and the set is clean; after a read
\* that failed the table is empty, a write was tried and the set is clean if
\* and only if the write succeeded.
C11_AsClaimed ==
    Started =>
        IF call.ret THEN StartedLoaded /\ ~m_is_dirty ELSE StartedEmpty

\* C11, amended: after a read that succeeded the table holds the entries
\* read but those the sweep discarded, and the set is clean if and only if
\* the sweep discarded nothing; after a read that failed, as claimed.
C11_Start ==
    Started =>
        IF call.ret
        THEN StartedLoaded /\ (m_is_dirty = (MergedBanmap(Guarded) # banlist_dat))
        ELSE StartedEmpty

\* C11's case: a banlist.dat with a ban that has run out and one that has
\* not was read, and the constructor left the second in the table
C11_Witness ==
    /\ Started
    /\ call.ret
    /\ MergedBanmap(Guarded) # EmptyMap
    /\ MergedBanmap(Guarded) # banlist_dat

(***************************************************************************)
(* C12.  No call fails.                                                    *)
(***************************************************************************)
\* C12 as claimed: in every state the calls reach, no assert of Ban has
\* failed, and neither Ban nor Unban has erased from m_misbehaving_addrs an
\* address that std::find did not find in it.
C12_AsClaimed == fault = NoFault

(***************************************************************************)
(* SpecTrip: on every table over one address and two subnets that hold it, *)
(* at every time, GetBanned(banmap) is called and then SetBanned(banmap).  *)
(***************************************************************************)
\* GetBanned(banmap); SetBanned(banmap)
RoundTrip ==
    /\ fault = NoFault
    /\ LET gb == GetBanned(Guarded, now)
       IN  /\ Becomes(SetBannedLocked(gb.st, gb.banmap))
           /\ call' = Call("GetBanned;SetBanned", {}, "", FALSE, gb.notified, NoWrite,
                           NothingEvicted)
    /\ flood' = Spoiled
    /\ UNCHANGED <<now, m_limit, fault, threads>>

TripNext == Tick \/ RoundTrip

SpecTrip == QueryInit /\ [][TripNext]_vars

(***************************************************************************)
(* C13.  GetBanned and SetBanned, one after the other.                     *)
(***************************************************************************)
\* the (key, entry) pairs of a table, an address a under the key CSubNet(a)
Pairs(st) ==
    {<<CSubNet(a), st.addrs[a]>> : a \in DOMAIN st.addrs}
    \cup {<<k, st.subnets[k]>> : k \in DOMAIN st.subnets}

\* the table before the step, swept
SweptBefore == SweepLocked(Guarded, now).st

\* C13: GetBanned followed by SetBanned of what it returned leaves the table
\* that a sweep leaves: the same (key, entry) pairs, the addresses in
\* m_banned_addrs and no single address in m_banned_subnets, the same answers
\* of IsBanned and IsBannedLevel for every address; and the set is dirty.
C13_RoundTrip ==
    [][call'.name = "GetBanned;SetBanned" =>
          /\ Pairs(Guarded') = Pairs(SweptBefore)
          /\ m_banned_addrs' = SweptBefore.addrs
          /\ m_banned_subnets' = SweptBefore.subnets
          /\ \A k \in DOMAIN m_banned_subnets' : ~IsSingleAddr(k)
          /\ \A a \in NetAddrs :
                /\ IsBanned(Guarded', now, a) = IsBanned(SweptBefore, now, a)
                /\ IsBannedLevel(Guarded', now, a) = IsBannedLevel(SweptBefore, now, a)
          /\ m_is_dirty']_vars

\* C13's case: the round trip swept a ban out and left an address and a
\* subnet banned
C13_Witness ==
    /\ call.name = "GetBanned;SetBanned"
    /\ call.notified > 0
    /\ DOMAIN m_banned_addrs # {}
    /\ DOMAIN m_banned_subnets # {}

(***************************************************************************)
(* C14.  Every change of the table is notified.                            *)
(***************************************************************************)
\* the call just made returned and left other entries in the table than it
\* found
TableChanged ==
    /\ Returned
    /\ <<m_banned_addrs', m_banned_subnets'>> # <<m_banned_addrs, m_banned_subnets>>

\* C14 as claimed: a call that changes the entries of the table calls
\* BannedListChanged() at least once before it returns (m_client_interface
\* being set).
C14_AsClaimed == [][TableChanged => call'.notified >= 1]_vars

(***************************************************************************)
(* C15.  What the buffer of misbehaving addresses holds.                   *)
(***************************************************************************)
\* C15 as claimed: every address in m_misbehaving_addrs has an entry in
\* m_banned_addrs with the reason NodeMisbehaving, and the buffer holds at
\* most m_limit addresses.
C15_AsClaimed ==
    fault = NoFault =>
        /\ \A i \in 1..Len(m_misbehaving_addrs) :
              /\ m_misbehaving_addrs[i] \in DOMAIN m_banned_addrs
              /\ m_banned_addrs[m_misbehaving_addrs[i]].banReason = BanReasonNodeMisbehaving
        /\ Len(m_misbehaving_addrs) <= m_limit

(***************************************************************************)
(* C16.  Which map holds which key.                                        *)
(***************************************************************************)
\* C16: no key of m_banned_subnets is the subnet of a single address; a ban
\* of one address, asked for as an address or as its subnet, is in
\* m_banned_addrs only.
C16_Keyspace ==
    /\ \A k \in DOMAIN m_banned_subnets : ~IsSingleAddr(k)
    /\ \A a \in DOMAIN m_banned_addrs : CSubNet(a) \notin DOMAIN m_banned_subnets
    /\ (call.name = "Ban" /\ call.ret /\ fault = NoFault /\ IsSingleAddr(call.sub_net)) =>
          call.sub_net \notin DOMAIN m_banned_subnets

\* C16's case: SetBanned was handed the ban of a single address's subnet and
\* put it in m_banned_addrs
C16_Witness ==
    /\ call.name = "SetBanned"
    /\ 1 \in DOMAIN m_banned_addrs
    /\ DOMAIN m_banned_subnets = {}

(***************************************************************************)
(* SpecLock: two threads call Ban, Unban, SweepBanned, GetBanned,          *)
(* DumpBanlist and ClearBanned on one address.  Here pc[t] is the call     *)
(* stack of thread t, the empty sequence when it is in no call: a frame is *)
(* <<function, line, local>>, the line being the statement the function   *)
(* is at (the call it waits in, for the frames below the top).  A step is  *)
(* one block under m_cs_banned, one notification, or the start or the end  *)
(* of m_ban_db.Write.                                                      *)
(***************************************************************************)
Frame(fn, line, local) == <<fn, line, local>>

\* the site of a frame: its function and line
Site(frame) == <<frame[1], frame[2]>>

\* the frame thread t runs
Top(t) == pc[t][Len(pc[t])]

\* thread t is at the line of fn
At(t, fn, line) == pc[t] # <<>> /\ Site(Top(t)) = <<fn, line>>

\* The sites inside a LOCK(m_cs_banned) scope that a step does not span:
\* GetBanned holds the lock from line 244 on, while it calls SweepBanned
\* (line 246) and while it copies (lines 247-250).
LockedSites == {<<"GetBanned", 246>>, <<"GetBanned", 247>>}

\* thread t holds m_cs_banned
HoldsLock(t) == \E i \in 1..Len(pc[t]) : Site(pc[t][i]) \in LockedSites

\* thread t can enter m_cs_banned (a recursive mutex): no other thread holds it
CanLock(t) == \A u \in Threads \ {t} : ~HoldsLock(u)

\* where a function goes on when the call it waited in returns: the frame at
\* its next statement, or <<>> when it returns itself
AfterCall(frame) ==
    CASE Site(frame) = <<"DumpBanlist", 53>> -> <<Frame("DumpBanlist", 55, "")>>
      [] Site(frame) = <<"DumpBanlist", 60>> -> <<Frame("DumpBanlist", 61, "")>>
      [] Site(frame) = <<"GetBanned", 246>> -> <<Frame("GetBanned", 247, "")>>
      [] Site(frame) = <<"ClearBanned", 78>> -> <<Frame("ClearBanned", 79, "")>>
      [] OTHER -> <<>>

\* the stack after its top frame returned
RECURSIVE Return(_)
Return(stack) ==
    LET rest == SubSeq(stack, 1, Len(stack) - 1)
    IN  IF rest = <<>> THEN <<>>
        ELSE IF AfterCall(rest[Len(rest)]) = <<>> THEN Return(rest)
        ELSE SubSeq(rest, 1, Len(rest) - 1) \o AfterCall(rest[Len(rest)])

\* the frames of a call of DumpBanlist(), which starts with SweepBanned()
EnterDump == <<Frame("DumpBanlist", 53, ""), Frame("SweepBanned", 275, "")>>

\* the steps leave alone what they do not name
LockFrame(changed) ==
    /\ fault = NoFault
    /\ UNCHANGED <<now, m_limit, calls, banmap_of, banlist_dat>>
    /\ changed \/ UNCHANGED <<m_banned_addrs, m_banned_subnets, m_misbehaving_addrs,
                              m_is_dirty, fault>>

\* Ban: the locked block (lines 172-207)
LockBan(t, sub_net, ban_reason, ban_time_offset) ==
    LET ban_entry == CBanEntry(BanUntil(now, ban_time_offset, FALSE), ban_reason)
    IN  /\ pc[t] = <<>> /\ CanLock(t)
        /\ \E o \in BanLocked(Guarded, m_limit, sub_net, ban_entry) :
              /\ Becomes(o.st)
              /\ fault' = o.fault
              /\ Goto(t, IF o.applied THEN <<Frame("Ban", 208, ban_reason)>> ELSE <<>>)
        /\ LockFrame(TRUE)

\* Ban: BannedListChanged() (line 208), then DumpBanlist() for a manual ban
LockBanNotify(t) ==
    /\ At(t, "Ban", 208)
    /\ Goto(t, IF Top(t)[3] = BanReasonManuallyAdded
               THEN <<Frame("Ban", 211, "")>> \o EnterDump
               ELSE <<>>)
    /\ LockFrame(FALSE)

\* Unban: the locked block (lines 222-236)
LockUnban(t, sub_net) ==
    /\ pc[t] = <<>> /\ CanLock(t)
    /\ \E o \in UnbanLocked(Guarded, sub_net) :
          /\ Becomes(o.st)
          /\ fault' = o.fault
          /\ Goto(t, IF o.removed THEN <<Frame("Unban", 237, "")>> ELSE <<>>)
    /\ LockFrame(TRUE)

\* Unban: BannedListChanged() (line 237), then DumpBanlist()
LockUnbanNotify(t) ==
    /\ At(t, "Unban", 237)
    /\ Goto(t, <<Frame("Unban", 238, "")>> \o EnterDump)
    /\ LockFrame(FALSE)

\* ClearBanned: the locked block (lines 71-77), then DumpBanlist()
LockClear(t) ==
    /\ pc[t] = <<>> /\ CanLock(t)
    /\ Becomes(ClearLocked(Guarded))
    /\ UNCHANGED fault
    /\ Goto(t, <<Frame("ClearBanned", 78, "")>> \o EnterDump)
    /\ LockFrame(TRUE)

\* ClearBanned: BannedListChanged() (line 79)
LockClearNotify(t) ==
    /\ At(t, "ClearBanned", 79)
    /\ Goto(t, Return(pc[t]))
    /\ LockFrame(FALSE)

\* a call of SweepBanned(), DumpBanlist() or GetBanned(banmap) begins
LockEnter(t, fn) ==
    /\ pc[t] = <<>>
    /\ Goto(t, CASE fn = "SweepBanned" -> <<Frame("SweepBanned", 275, "")>>
                 [] fn = "DumpBanlist" -> EnterDump
                 [] fn = "GetBanned" -> <<Frame("GetBanned", 244, "")>>)
    /\ LockFrame(FALSE)

\* SweepBanned: the locked block (lines 275-303); line 305 if notify_ui
LockSweep(t) ==
    /\ At(t, "SweepBanned", 275) /\ CanLock(t)
    /\ LET sw == SweepLocked(Guarded, now)
       IN  /\ Becomes(sw.st)
           /\ Goto(t, IF sw.notify_ui
                      THEN SubSeq(pc[t], 1, Len(pc[t]) - 1) \o <<Frame("SweepBanned", 305, "")>>
                      ELSE Return(pc[t]))
    /\ UNCHANGED fault
    /\ LockFrame(TRUE)

\* SweepBanned: BannedListChanged() (line 305)
LockSweepNotify(t) ==
    /\ At(t, "SweepBanned", 305)
    /\ Goto(t, Return(pc[t]))
    /\ LockFrame(FALSE)

\* DumpBanlist: if (!BannedSetIsDirty()) return; else GetBanned(banmap)
LockDirty(t) ==
    /\ At(t, "DumpBanlist", 55) /\ CanLock(t)
    /\ Goto(t, IF m_is_dirty
               THEN SubSeq(pc[t], 1, Len(pc[t]) - 1)
                    \o <<Frame("DumpBanlist", 60, ""), Frame("GetBanned", 244, "")>>
               ELSE Return(pc[t]))
    /\ LockFrame(FALSE)

\* GetBanned: LOCK(m_cs_banned) (line 244), then SweepBanned() (line 246)
LockGet(t) ==
    /\ At(t, "GetBanned", 244) /\ CanLock(t)
    /\ Goto(t, SubSeq(pc[t], 1, Len(pc[t]) - 1)
               \o <<Frame("GetBanned", 246, ""), Frame("SweepBanned", 275, "")>>)
    /\ LockFrame(FALSE)

\* GetBanned: the copy (lines 247-250) and the end of the lock's scope
LockCopy(t) ==
    /\ At(t, "GetBanned", 247)
    /\ Goto(t, Return(pc[t]))
    /\ LockFrame(FALSE)

\* DumpBanlist: m_ban_db.Write(banmap) is entered (line 61)
LockWrite(t) ==
    /\ At(t, "DumpBanlist", 61) /\ Top(t)[3] = ""
    /\ Goto(t, SubSeq(pc[t], 1, Len(pc[t]) - 1) \o <<Frame("DumpBanlist", 61, "Write")>>)
    /\ LockFrame(FALSE)

\* DumpBanlist: m_ban_db.Write(banmap) returns write_ok
LockWritten(t, write_ok) ==
    /\ At(t, "DumpBanlist", 61) /\ Top(t)[3] = "Write"
    /\ Goto(t, IF write_ok
               THEN SubSeq(pc[t], 1, Len(pc[t]) - 1) \o <<Frame("DumpBanlist", 62, "")>>
               ELSE Return(pc[t]))
    /\ LockFrame(FALSE)

\* DumpBanlist: SetBannedSetDirty(false) (line 62)
LockMark(t) ==
    /\ At(t, "DumpBanlist", 62) /\ CanLock(t)
    /\ m_is_dirty' = FALSE
    /\ UNCHANGED <<m_banned_addrs, m_banned_subnets, m_misbehaving_addrs, fault>>
    /\ Goto(t, Return(pc[t]))
    /\ LockFrame(TRUE)

\* time passes
LockTick ==
    /\ now < MaxTime
    /\ now' = now + 1
    /\ fault = NoFault
    /\ UNCHANGED <<m_banned_addrs, m_banned_subnets, m_misbehaving_addrs, m_limit,
                   m_is_dirty, fault, calls, threads>>

LockInit ==
    /\ now = 0
    /\ m_banned_addrs = EmptyMap
    /\ m_banned_subnets = EmptyMap
    /\ m_misbehaving_addrs = <<>>
    /\ m_limit = 1
    /\ m_is_dirty = FALSE
    /\ fault = NoFault
    /\ call = Call("BanMan", {}, "", TRUE, 0, NoWrite, NothingEvicted)
    /\ flood = <<>>
    /\ pc = [t \in Threads |-> <<>>]
    /\ banmap_of = [t \in Threads |-> EmptyMap]
    /\ banlist_dat = EmptyMap

LockNext ==
    \/ LockTick
    \/ \E t \in Threads :
          \/ \E ban_reason \in {BanReasonNodeMisbehaving, BanReasonManuallyAdded} :
                LockBan(t, CSubNet(1), ban_reason, 1)
          \/ LockBanNotify(t)
          \/ LockUnban(t, CSubNet(1))
          \/ LockUnbanNotify(t)
          \/ LockClear(t)
          \/ LockClearNotify(t)
          \/ \E fn \in {"SweepBanned", "DumpBanlist", "GetBanned"} : LockEnter(t, fn)
          \/ LockSweep(t)
          \/ LockSweepNotify(t)
          \/ LockDirty(t)
          \/ LockGet(t)
          \/ LockCopy(t)
          \/ LockWrite(t)
          \/ \E write_ok \in BOOLEAN : LockWritten(t, write_ok)
          \/ LockMark(t)

SpecLock == LockInit /\ [][LockNext]_vars

(***************************************************************************)
(* C17.  Notifications and writes are made outside the lock.               *)
(***************************************************************************)
\* the lines that call BannedListChanged()
NotifySites ==
    {<<"Ban", 208>>, <<"Unban", 237>>, <<"ClearBanned", 79>>, <<"SweepBanned", 305>>}

\* the line that calls m_ban_db.Write
WriteSites == {<<"DumpBanlist", 61>>}

\* C17 as claimed: a thread that is calling BannedListChanged() or
\* m_ban_db.Write does not hold m_cs_banned.
C17_AsClaimed ==
    \A t \in Threads :
        (pc[t] # <<>> /\ Site(Top(t)) \in NotifySites \cup WriteSites) => ~HoldsLock(t)

(***************************************************************************)
(* C18.  Writes of banlist.dat do not overlap.                             *)
(***************************************************************************)
\* thread t is inside m_ban_db.Write
InWrite(t) == At(t, "DumpBanlist", 61) /\ Top(t)[3] = "Write"

\* C18 as claimed: no two threads are inside m_ban_db.Write at once.
C18_AsClaimed ==
    \A t \in Threads, u \in Threads : (InWrite(t) /\ InWrite(u)) => t = u

(***************************************************************************)
(* C19.  A ban that is due takes effect.                                   *)
(***************************************************************************)
\* the entry the key of the call held before it, the null entry if none
EntryBefore ==
    IF HasEntry(Guarded, call'.sub_net) THEN EntryOf(Guarded, call'.sub_net)
    ELSE NullBanEntry

\* the call just made was Ban for ban_time_offset seconds from now, which
\* no manual ban stood against and which asked for a later expiry than the
\* key had, and it returned
BanDue(ban_time_offset) ==
    /\ call'.name = "Ban"
    /\ Returned
    /\ Ban(call'.sub_net, call'.ban_reason, ban_time_offset, FALSE)
    /\ ~ManualStands(EntryBefore, call'.ban_reason)
    /\ now + ban_time_offset > EntryBefore.nBanUntil

\* C19 as claimed: after such a ban the key holds the entry asked for, and
\* the address is banned.
C19_AsClaimed ==
    [][\A d \in 1..MaxOffset :
          BanDue(d) =>
              /\ HasEntry(Guarded', call'.sub_net)
              /\ EntryOf(Guarded', call'.sub_net) = CBanEntry(now + d, call'.ban_reason)
              /\ IsBanned(Guarded', now, SingleAddr(call'.sub_net))]_vars

(***************************************************************************)
(* SpecAsk: the three queries asked of every table over one address and    *)
(* two subnets that hold it, at every time.                                *)
(***************************************************************************)
\* IsBanned(CSubNet sub_net) at time t
IsBannedSubNet(st, t, sub_net) ==
    IF IsSingleAddr(sub_net)
    THEN IsBanned(st, t, SingleAddr(sub_net))
    ELSE sub_net \in DOMAIN st.subnets /\ t < st.subnets[sub_net].nBanUntil

\* IsBanned(net_addr) is called
AskBanned(net_addr) ==
    /\ fault = NoFault
    /\ call' = Call("IsBanned", CSubNet(net_addr), "", IsBanned(Guarded, now, net_addr),
                    0, NoWrite, NothingEvicted)
    /\ UNCHANGED <<now, m_banned_addrs, m_banned_subnets, m_misbehaving_addrs, m_limit,
                   m_is_dirty, fault, flood, threads>>

\* IsBanned(sub_net) is called
AskBannedSubNet(sub_net) ==
    /\ fault = NoFault
    /\ call' = Call("IsBanned(CSubNet)", sub_net, "", IsBannedSubNet(Guarded, now, sub_net),
                    0, NoWrite, NothingEvicted)
    /\ UNCHANGED <<now, m_banned_addrs, m_banned_subnets, m_misbehaving_addrs, m_limit,
                   m_is_dirty, fault, flood, threads>>

AskNext ==
    \/ Tick
    \/ \E net_addr \in NetAddrs : AskLevel(net_addr)
    \/ \E net_addr \in NetAddrs : AskBanned(net_addr)
    \/ \E sub_net \in SubNets : AskBannedSubNet(sub_net)

SpecAsk == QueryInit /\ [][AskNext]_vars

(***************************************************************************)
(* C20.  The queries agree.                                                *)
(***************************************************************************)
\* C20: IsBanned(a) answers true exactly when IsBannedLevel(a) answers more
\* than 0, and IsBanned of the subnet of the single address a answers what
\* IsBanned(a) answers.
C20_QueriesAgree ==
    /\ call.name = "IsBanned" =>
          call.ret = (IsBannedLevel(Guarded, now, SingleAddr(call.sub_net)) > 0)
    /\ call.name = "IsBannedLevel" =>
          (call.ret > 0) = IsBanned(Guarded, now, SingleAddr(call.sub_net))
    /\ (call.name = "IsBanned(CSubNet)" /\ IsSingleAddr(call.sub_net)) =>
          /\ call.ret = IsBanned(Guarded, now, SingleAddr(call.sub_net))
          /\ call.ret = (IsBannedLevel(Guarded, now, SingleAddr(call.sub_net)) > 0)

\* C20's case: IsBanned was asked of the subnet of address 1, which has no
\* entry of its own and is banned through a subnet that holds it
C20_Witness ==
    /\ call.name = "IsBanned(CSubNet)"
    /\ call.sub_net = CSubNet(1)
    /\ call.ret = TRUE
    /\ 1 \notin DOMAIN m_banned_addrs

=============================================================================
